---------------------------- MODULE Spec2Model ----------------------------
(***************************************************************************)
(* Repository statistics tools: the collector and aggregator of            *)
(* src/utils/repo_stats.py (RepoAnalyzer), the chart derivations of        *)
(* src/utils/stats_visualizer.py (StatsVisualizer) and the command line    *)
(* of src/utils/cli.py (RepositoryToolsCLI).                               *)
(*                                                                         *)
(* Three specifications share the variables:                               *)
(*   Spec       one run of the command line (stats, visualize, analyze)    *)
(*              against a remote provider that answers each query as it    *)
(*              likes;                                                     *)
(*   SpecCharts a StatsVisualizer holding a loaded report, on which the    *)
(*              four chart derivations are called in any order;            *)
(*   SpecRank   the contributor ranking applied to a list and to a         *)
(*              permutation of it.                                         *)
(*                                                                         *)
(* Python values: a dict is a sequence of [k, v] entries in insertion      *)
(* order, a list is a sequence, a str that the code takes apart (a path,   *)
(* an extension) is a sequence of one-character strings, an ISO timestamp  *)
(* is <<year, month, day, hour>> so that its first ten characters are its  *)
(* first three fields.                                                     *)
(***************************************************************************)
EXTENDS Integers, Sequences, FiniteSets, TLC

VARIABLES
    command,        \* cli.py: args.command
    pc,             \* position of the run
    trace,          \* the steps of run_analyze/run_stats/run_visualize, in order
    stats_result,   \* run_stats' return value (-1: not assigned)
    viz_result,     \* run_visualize's return value (-1: not assigned)
    exit_status,    \* what RepositoryToolsCLI.run returns (-1: still running)
    requests,       \* get_commits: params["page"] of every requests.get, in order
    responses,      \* the provider's answer to each of them
    page,           \* get_commits: page
    all_commits,    \* get_commits: all_commits
    gc_outcome,     \* get_commits: "idle", "running", "returned" or "raised"
    tree_response,  \* the provider's answer to the tree query (<<>>: not asked)
    contrib_response, \* the provider's answer to the contributors query
    report,         \* generate_report's return value (<<>>: none)
    stats_file,     \* the JSON document on disk (<<>>: no readable file)
    loaded,         \* the report as the visualizer loaded it
    stats,          \* StatsVisualizer.stats
    charts,         \* the series handed to the renderer, per chart
    rk_list,        \* ranking: a contributor list
    rk_perm,        \* ranking: a permutation of rk_list
    rk_out,         \* ranking of rk_list (a one-element sequence once computed)
    rk_perm_out     \* ranking of rk_perm (a one-element sequence once computed)

vars == <<command, pc, trace, stats_result, viz_result, exit_status,
          requests, responses, page, all_commits, gc_outcome,
          tree_response, contrib_response, report, stats_file,
          loaded, stats, charts, rk_list, rk_perm, rk_out, rk_perm_out>>

cliVars == <<command, trace, stats_result, viz_result, exit_status>>
collectVars == <<requests, responses, page, all_commits, gc_outcome,
                 tree_response, contrib_response, report, stats_file>>
vizVars == <<loaded, stats, charts>>
rankVars == <<rk_list, rk_perm, rk_out, rk_perm_out>>

---------------------------------------------------------------------------
(* Bounds of the model *)

\* The provider serves at most this many full pages of commits.
MaxPages == 3
\* The longest contributor list the provider returns.
MaxContribs == 11
\* File-type mappings of a loaded report have at most this many categories.
MaxTypes == 3
\* Ranking inputs up to this length are enumerated exhaustively.
MaxSmall == 3
\* The largest contribution count of an exhaustively enumerated ranking input.
MaxCount == 2
\* The longest path of an exhaustively enumerated tree entry.
MaxPathLen == 4

(* Program constants *)

\* repo_stats.py: params = {... "per_page": 100} and `len(commits) < 100`
PerPage == 100
\* repo_stats.py: contributors[:10]; stats_visualizer.py: contributors[:10]
TopContributors == 10
\* stats_visualizer.py: sorted_authors[:8]
TopAuthors == 8

---------------------------------------------------------------------------
(* Python built-ins *)

Min(a, b) == IF a <= b THEN a ELSE b

\* s[:n]
Take(s, n) == SubSeq(s, 1, Min(n, Len(s)))

\* sum(d.values())
RECURSIVE SumValues(_)
SumValues(d) ==
    IF d = <<>> THEN 0 ELSE Head(d).v + SumValues(Tail(d))

\* list(d.keys())
Keys(d) == [i \in 1..Len(d) |-> d[i].k]

HasKey(d, k) == \E i \in 1..Len(d) : d[i].k = k

\* d[k] for a key that is present
Get(d, k) == d[CHOOSE i \in 1..Len(d) : d[i].k = k].v

\* d[k] = v: a present key keeps its place, a new key goes last
DictSet(d, k, v) ==
    IF HasKey(d, k)
    THEN [i \in 1..Len(d) |-> IF d[i].k = k THEN [k |-> k, v |-> v] ELSE d[i]]
    ELSE Append(d, [k |-> k, v |-> v])

\* d[k] += 1 on a defaultdict(int) or a Counter
DictIncrement(d, k) ==
    DictSet(d, k, IF HasKey(d, k) THEN Get(d, k) + 1 ELSE 1)

\* list.sort(key=..., reverse=...) and sorted(...) are stable: an element
\* goes before the first one that must come after it, so elements with equal
\* keys keep the order they arrived in, with reverse=True as without it.
\* keys[i] is the sort key of the i-th element; the result is the order of
\* the indices.
KeyBefore(a, b, reverse) == IF reverse THEN a > b ELSE a < b

InsertSorted(order, n, keys, reverse) ==
    LET later == {i \in 1..Len(order) : KeyBefore(keys[n], keys[order[i]], reverse)}
        at == IF later = {} THEN Len(order) + 1
              ELSE CHOOSE i \in later : \A j \in later : i <= j
    IN  SubSeq(order, 1, at - 1) \o <<n>> \o SubSeq(order, at, Len(order))

RECURSIVE SortedOrder(_, _, _)
SortedOrder(keys, n, reverse) ==
    IF n = 0 THEN <<>>
    ELSE InsertSorted(SortedOrder(keys, n - 1, reverse), n, keys, reverse)

StableSort(s, keys, reverse) ==
    LET order == SortedOrder(keys, Len(s), reverse)
    IN  [i \in 1..Len(s) |-> s[order[i]]]

---------------------------------------------------------------------------
(* The remote provider: what it may answer *)

\* args.repo
Repository == "octo/demo"
\* args.days
AnalysisPeriodDays == 30

AuthorNames == <<"alice", "bob", "carol">>

\* The commit at place i of page p, as the provider lists it: the code reads
\* commit["commit"]["author"]["date"] and commit["commit"]["author"]["name"].
\* f varies who wrote what and when.
CommitItem(p, i, f) ==
    [sha |-> <<p, i>>,
     commit |-> [author |->
        [name |-> AuthorNames[((i * f + p) % Len(AuthorNames)) + 1],
         date |-> <<2024, 1, ((i + f * p) % 4) + 1, i % 24>>]]]

CommitPage(p, n, f) == [i \in 1..n |-> CommitItem(p, i, f)]

\* A non-success answer; is_json: whether its body parses as a JSON object
\* (an API error does, a gateway's HTML error page does not).
FailureResponses ==
    {[status |-> 403, is_json |-> TRUE, body |-> <<>>],
     [status |-> 502, is_json |-> FALSE, body |-> <<>>]}

\* A success answer holds 0..PerPage commits: none, some, one less than a
\* full page, a full page.
CommitResponses(p) ==
    FailureResponses \cup
    {[status |-> 200, is_json |-> TRUE, body |-> CommitPage(p, n, 1)] :
        n \in {0, PerPage - 1, PerPage}} \cup
    {[status |-> 200, is_json |-> TRUE, body |-> CommitPage(p, 37, f)] :
        f \in 1..2}

\* Tree entries {path, type}; a path is its characters.
TreeListings ==
    {<<[path |-> <<"s", "r", "c", "/", "m", "a", "i", "n", ".", "r", "s">>, type |-> "blob"],
       [path |-> <<"s", "r", "c">>, type |-> "tree"],
       [path |-> <<"M", "a", "k", "e", "f", "i", "l", "e">>, type |-> "blob"],
       [path |-> <<"s", "r", "c", "/", "l", "i", "b", ".", "R", "S">>, type |-> "blob"],
       [path |-> <<"R", "E", "A", "D", "M", "E", ".", "m", "d">>, type |-> "blob"]>>,
     <<[path |-> <<"a", ".", "p", "y">>, type |-> "blob"],
       [path |-> <<"v", "e", "n", "d", "o", "r", ".", "d">>, type |-> "commit"],
       [path |-> <<"p", "k", "g", "/", "b", ".", "p", "y">>, type |-> "blob"],
       [path |-> <<"p", "k", "g", "/", "c", ".", "P", "y">>, type |-> "blob"],
       [path |-> <<"L", "I", "C", "E", "N", "S", "E">>, type |-> "blob"]>>}

\* The tree query's JSON object; one answer has no "tree" member.
TreeResponses ==
    {[status |-> 404, body |-> <<>>],
     [status |-> 200, body |-> <<[k |-> "sha", v |-> "abc"]>>]} \cup
    {[status |-> 200,
      body |-> <<[k |-> "sha", v |-> "abc"], [k |-> "tree", v |-> t]>>] :
        t \in TreeListings}

\* The i-th of n contributors as the provider lists them.
Contributions(shape, n, i) ==
    CASE shape = "descending" -> 10 * (n - i + 1)
      [] shape = "ascending" -> i
      [] shape = "ties" -> 5 + (i % 2)

ContributorListing(shape, n) ==
    [i \in 1..n |->
        [login |-> <<"user", i>>, id |-> 1000 + i,
         contributions |-> Contributions(shape, n, i)]]

ContributorListings ==
    {ContributorListing(shape, n) :
        shape \in {"ascending", "ties"},
        n \in {0, TopContributors, MaxContribs}}

ContributorResponses ==
    {[status |-> 403, body |-> <<>>]} \cup
    {[status |-> 200, body |-> c] : c \in ContributorListings}

---------------------------------------------------------------------------
(* repo_stats.py: RepoAnalyzer *)

UpperCase == <<"A", "B", "C", "D", "E", "F", "G", "H", "I", "J", "K", "L", "M", "N", "O", "P", "Q", "R", "S", "T", "U", "V", "W", "X", "Y", "Z">>
LowerCase == <<"a", "b", "c", "d", "e", "f", "g", "h", "i", "j", "k", "l", "m", "n", "o", "p", "q", "r", "s", "t", "u", "v", "w", "x", "y", "z">>

\* str.lower(), one character
LowerChar(c) ==
    IF \E i \in 1..Len(UpperCase) : UpperCase[i] = c
    THEN LowerCase[CHOOSE i \in 1..Len(UpperCase) : UpperCase[i] = c]
    ELSE c

\* str.lower()
Lower(t) == [i \in 1..Len(t) |-> LowerChar(t[i])]

\* str.rfind(c), counting from 1: 0 when c does not occur
RFind(t, c) ==
    LET at == {i \in 1..Len(t) : t[i] = c}
    IN  IF at = {} THEN 0 ELSE CHOOSE i \in at : \A j \in at : j <= i

\* Mutant of SplitExt: the last dot of the whole path, not of its last
\* component
SplitExt_IgnoresSeparator(f) ==
    LET dotIndex == RFind(f, ".")
    IN  IF /\ dotIndex > 0
           /\ \E j \in 1..(dotIndex - 1) : f[j] # "."
        THEN SubSeq(f, dotIndex, Len(f))
        ELSE <<>>

\* os.path.splitext(f)[1]: from the last dot of the last path component on,
\* unless only dots come before it in that component
SplitExt(f) ==
    LET sepIndex == RFind(f, "/")
        dotIndex == RFind(f, ".")
    IN  IF /\ dotIndex > sepIndex
           /\ \E j \in (sepIndex + 1)..(dotIndex - 1) : f[j] # "."
        THEN SubSeq(f, dotIndex, Len(f))
        ELSE <<>>

NoExtension == <<"n", "o", "_", "e", "x", "t", "e", "n", "s", "i", "o", "n">>

\* os.path.splitext(f)[1][1:].lower() or "no_extension"
Extension(f) ==
    LET ext == Lower(SubSeq(SplitExt(f), 2, Len(SplitExt(f))))
    IN  IF ext = <<>> THEN NoExtension ELSE ext

\* Counter(elements): counts in order of first occurrence
RECURSIVE Counter(_)
Counter(elements) ==
    IF elements = <<>> THEN <<>>
    ELSE DictIncrement(Counter(SubSeq(elements, 1, Len(elements) - 1)),
                       elements[Len(elements)])

\* [item["path"] for item in data.get("tree", []) if item["type"] == "blob"]
BlobPaths(data) ==
    LET tree == IF HasKey(data, "tree") THEN Get(data, "tree") ELSE <<>>
        IsBlob(item) == item.type = "blob"
        blobs == SelectSeq(tree, IsBlob)
    IN  [i \in 1..Len(blobs) |-> blobs[i].path]

\* get_file_types, given the provider's answer
GetFileTypes(response) ==
    IF response.status # 200 THEN <<>>
    ELSE LET files == BlobPaths(response.body)
         IN  Counter([i \in 1..Len(files) |-> Extension(files[i])])

\* get_contributors, given the provider's answer
GetContributors(response) ==
    IF response.status # 200 THEN <<>> ELSE response.body

\* commit["commit"]["author"]["date"][:10]
CommitDate(c) == SubSeq(c.commit.author.date, 1, 3)

\* Mutant of CountCommit: authors[author] = 1 in place of authors[author] += 1
CountCommit_AuthorSetToOne(acc, c) ==
    [commit_dates |-> DictIncrement(acc.commit_dates, CommitDate(c)),
     authors |-> DictSet(acc.authors, c.commit.author.name, 1)]

\* One round of generate_report's loop over the commits
CountCommit(acc, c) ==
    [commit_dates |-> DictIncrement(acc.commit_dates, CommitDate(c)),
     authors |-> DictIncrement(acc.authors, c.commit.author.name)]

\* The loop over commits[lo..hi], one commit after the other from lo to hi,
\* started with acc.  The range is split in halves, and the first half is
\* evaluated before the second is entered, only to keep the evaluation
\* shallow.
RECURSIVE CountCommits(_, _, _, _)
CountCommits(acc, commits, lo, hi) ==
    IF lo > hi THEN acc
    ELSE IF lo = hi THEN CountCommit(acc, commits[lo])
    ELSE LET mid == (lo + hi) \div 2
             first == CountCommits(acc, commits, lo, mid)
         IN  IF Len(first.authors) >= 0
             THEN CountCommits(first, commits, mid + 1, hi)
             ELSE first

\* Mutant of ReportContributors: the [:10] is missing
ReportContributors_NoLimit(contributors) ==
    [i \in 1..Len(contributors) |->
        [login |-> contributors[i].login,
         contributions |-> contributors[i].contributions]]

\* contributors[:10], each reduced to its login and contributions
ReportContributors(contributors) ==
    LET top == Take(contributors, TopContributors)
    IN  [i \in 1..Len(top) |->
            [login |-> top[i].login, contributions |-> top[i].contributions]]

\* generate_report, given what the three queries returned
GenerateReport(commits, file_types, contributors) ==
    LET counted == CountCommits([commit_dates |-> <<>>, authors |-> <<>>],
                                commits, 1, Len(commits))
    IN  [repository |-> Repository,
         analysis_period_days |-> AnalysisPeriodDays,
         total_commits |-> Len(commits),
         commit_frequency |-> counted.commit_dates,
         authors |-> counted.authors,
         file_types |-> file_types,
         contributors |-> ReportContributors(contributors)]

---------------------------------------------------------------------------
(* stats_visualizer.py: StatsVisualizer *)

OtherLabel == <<"O", "t", "h", "e", "r">>

\* Strings of the form YYYY-MM-DD compare as their fields do.
DateOrder(date) == date[1] * 10000 + date[2] * 100 + date[3]

\* generate_commit_frequency_chart: sorted(zip(dates, counts), key=date)
CommitFrequencySeries(st) ==
    LET cf == st.commit_frequency
    IN  StableSort(cf, [i \in 1..Len(cf) |-> DateOrder(cf[i].k)], FALSE)

\* Mutant of AtLeastThreshold: > in place of >=
AtLeastThreshold_Strict(count, total_files) == count * 50 > total_files

\* count >= threshold, where threshold = total_files * 0.02 is an IEEE double.
\* The double nearest 0.02 is 0.02 * (1 + 6 / 2^58); for totals below 2^31
\* the rounded product is exactly total/50 when that is a whole number, and
\* otherwise lies within 1/100 of it, strictly between the two whole numbers
\* around total/50: comparing a whole count with it is comparing 50 * count
\* with total.
AtLeastThreshold(count, total_files) == count * 50 >= total_files

\* One round of the loop over file_types.items()
GroupFileType(acc, entry, total_files) ==
    IF AtLeastThreshold(entry.v, total_files)
    THEN [grouped_types |-> DictSet(acc.grouped_types, entry.k, entry.v),
          other_count |-> acc.other_count]
    ELSE [grouped_types |-> acc.grouped_types,
          other_count |-> acc.other_count + entry.v]

RECURSIVE GroupFileTypes(_, _, _)
GroupFileTypes(file_types, n, total_files) ==
    IF n = 0 THEN [grouped_types |-> <<>>, other_count |-> 0]
    ELSE GroupFileType(GroupFileTypes(file_types, n - 1, total_files),
                       file_types[n], total_files)

\* generate_file_types_chart: grouped_types as handed to plt.pie
FileTypesSeries(st) ==
        LET file_types == st.file_types
            total_files == SumValues(file_types)
            g == GroupFileTypes(file_types, Len(file_types), total_files)
        IN  IF g.other_count > 0
            THEN DictSet(g.grouped_types, OtherLabel, g.other_count)
            ELSE g.grouped_types

\* Mutant of SortContributors: reverse=True is missing
SortContributors_Ascending(contributors) ==
    StableSort(contributors,
               [i \in 1..Len(contributors) |-> contributors[i].contributions],
               FALSE)

\* contributors.sort(key=lambda x: x["contributions"], reverse=True)
SortContributors(contributors) ==
    StableSort(contributors,
               [i \in 1..Len(contributors) |-> contributors[i].contributions],
               TRUE)

\* Sort descending by contributions, then contributors[:10]
RankContributors(contributors) ==
    Take(SortContributors(contributors), TopContributors)

\* generate_contributors_chart: names and contributions as handed to plt.barh
ContributorsSeries(st) ==
    LET top == RankContributors(st.contributors)
    IN  [i \in 1..Len(top) |-> [k |-> top[i].login, v |-> top[i].contributions]]

\* generate_contributors_chart: self.stats afterwards (the list is sorted in
\* place, and self.stats["contributors"] is that list)
StatsAfterContributorsChart(st) ==
    [st EXCEPT !.contributors = SortContributors(st.contributors)]

\* generate_authors_activity_chart: sorted(authors.items(), ...)[:8]
AuthorsSeries(st) ==
    LET authors == st.authors
    IN  Take(StableSort(authors, [i \in 1..Len(authors) |-> authors[i].v], TRUE),
             TopAuthors)

NoCharts ==
    [commit_frequency |-> <<>>, file_types |-> <<>>,
     contributors |-> <<>>, author_activity |-> <<>>]

\* A visualizer is [stats, charts]; a chart not generated is <<>>, a
\* generated one is <<its series>>.  Each derivation, as a step on it:
CallCommitFrequency(v) ==
    [v EXCEPT !.charts.commit_frequency = <<CommitFrequencySeries(v.stats)>>]

CallFileTypes(v) ==
    [v EXCEPT !.charts.file_types = <<FileTypesSeries(v.stats)>>]

CallContributors(v) ==
    [stats |-> StatsAfterContributorsChart(v.stats),
     charts |-> [v.charts EXCEPT !.contributors = <<ContributorsSeries(v.stats)>>]]

CallAuthorsActivity(v) ==
    [v EXCEPT !.charts.author_activity = <<AuthorsSeries(v.stats)>>]

\* generate_html_report -> generate_all_charts, in the order of its dict
\* display.  rendered is how far the renderer got: 5, the four charts and
\* the HTML file are written; 4, writing the HTML file raised; k < 4, the
\* renderer raised in chart k + 1, after that chart's derivation.
GenerateAllCharts(v, rendered) ==
    LET v1 == IF rendered >= 1 THEN CallCommitFrequency(v) ELSE v
        v2 == IF rendered >= 2 THEN CallFileTypes(v1) ELSE v1
        v3 == IF rendered >= 3 THEN CallContributors(v2)
              ELSE IF rendered = 2
                   THEN [v2 EXCEPT !.stats = StatsAfterContributorsChart(v2.stats)]
                   ELSE v2
    IN  IF rendered >= 4 THEN CallAuthorsActivity(v3) ELSE v3

---------------------------------------------------------------------------
(* cli.py: one run of the command line, with the collection it drives *)

CliIdle ==
    /\ command = "none"
    /\ trace = <<>>
    /\ stats_result = -1
    /\ viz_result = -1
    /\ exit_status = -1

CollectorIdle ==
    /\ requests = <<>>
    /\ responses = <<>>
    /\ page = 1
    /\ all_commits = <<>>
    /\ gc_outcome = "idle"
    /\ tree_response = <<>>
    /\ contrib_response = <<>>
    /\ report = <<>>
    /\ stats_file = <<>>

VisualizerIdle ==
    /\ loaded = <<>>
    /\ stats = <<>>
    /\ charts = NoCharts

RankIdle ==
    /\ rk_list = <<>>
    /\ rk_perm = <<>>
    /\ rk_out = <<>>
    /\ rk_perm_out = <<>>

Init ==
    /\ pc = "idle"
    /\ CliIdle
    /\ CollectorIdle
    /\ VisualizerIdle
    /\ RankIdle

\* run_stats up to the first request of get_commits: all_commits = [], page = 1
BeginStats ==
    /\ trace' = Append(trace, "stats_start")
    /\ all_commits' = <<>>
    /\ page' = 1
    /\ gc_outcome' = "running"
    /\ pc' = "commits"

\* run: args.command == "stats"
RunStatsCommand ==
    /\ pc = "idle"
    /\ command' = "stats"
    /\ BeginStats
    /\ UNCHANGED <<stats_result, viz_result, exit_status, requests, responses,
                   tree_response, contrib_response, report, stats_file>>
    /\ UNCHANGED <<vizVars, rankVars>>

\* run_analyze up to the first request of get_commits; os.makedirs may raise,
\* and run_analyze then returns 1
RunAnalyzeCommand(dir_ok) ==
    /\ pc = "idle"
    /\ command' = "analyze"
    /\ IF dir_ok
       THEN /\ BeginStats
            /\ exit_status' = exit_status
       ELSE /\ exit_status' = 1
            /\ pc' = "done"
            /\ UNCHANGED <<trace, all_commits, page, gc_outcome>>
    /\ UNCHANGED <<stats_result, viz_result, requests, responses,
                   tree_response, contrib_response, report, stats_file>>
    /\ UNCHANGED <<vizVars, rankVars>>

\* Mutant of StatsReturns: run_analyze does not look at stats_result
StatsReturns_ResultIgnored(result) ==
    /\ stats_result' = result
    /\ trace' = Append(trace, "stats_end")
    /\ IF command = "analyze"
       THEN pc' = "visualize" /\ exit_status' = exit_status
       ELSE pc' = "done" /\ exit_status' = result
    /\ UNCHANGED <<command, viz_result>>

\* run_stats returns result: run returns it for "stats"; run_analyze returns
\* it when it is not 0 and goes on to run_visualize when it is
StatsReturns(result) ==
    /\ stats_result' = result
    /\ trace' = Append(trace, "stats_end")
    /\ IF command = "analyze" /\ result = 0
       THEN pc' = "visualize" /\ exit_status' = exit_status
       ELSE pc' = "done" /\ exit_status' = result
    /\ UNCHANGED <<command, viz_result>>

\* `if not commits: break`
EmptyPage(commits) == commits = <<>>

\* Mutant of ShortPage: <= in place of <
ShortPage_Inclusive(commits) == Len(commits) <= PerPage

\* Mutant of ShortPage: the check for the last page is missing
ShortPage_Never(commits) == FALSE

\* `if len(commits) < 100: break`
ShortPage(commits) == Len(commits) < PerPage

\* One round of get_commits' loop: the request for page `page` and what the
\* code does with the answer.  On a non-success status it prints
\* response.json().get("message", ...), which raises when the body is no JSON
\* object; the exception leaves generate_report and run_stats returns 1.
GetCommitsPage(response) ==
    /\ pc = "commits"
    /\ page <= MaxPages + 1
    /\ response.status = 200 /\ Len(response.body) = PerPage => page <= MaxPages
    /\ requests' = Append(requests, page)
    /\ responses' = Append(responses, response)
    /\ IF response.status # 200
       THEN IF response.is_json
            THEN /\ gc_outcome' = "returned"
                 /\ pc' = "tree"
                 /\ UNCHANGED <<all_commits, page, cliVars>>
            ELSE /\ gc_outcome' = "raised"
                 /\ StatsReturns(1)
                 /\ UNCHANGED <<all_commits, page>>
       ELSE IF EmptyPage(response.body)
            THEN /\ gc_outcome' = "returned"
                 /\ pc' = "tree"
                 /\ UNCHANGED <<all_commits, page, cliVars>>
            ELSE /\ all_commits' = all_commits \o response.body
                 /\ page' = page + 1
                 /\ IF ShortPage(response.body)
                    THEN gc_outcome' = "returned" /\ pc' = "tree"
                    ELSE gc_outcome' = "running" /\ pc' = "commits"
                 /\ UNCHANGED cliVars
    /\ UNCHANGED <<tree_response, contrib_response, report, stats_file>>
    /\ UNCHANGED <<vizVars, rankVars>>

\* generate_report: file_types = self.get_file_types()
GetFileTypesQuery(response) ==
    /\ pc = "tree"
    /\ tree_response' = response
    /\ pc' = "contributors"
    /\ UNCHANGED <<requests, responses, page, all_commits, gc_outcome,
                   contrib_response, report, stats_file>>
    /\ UNCHANGED <<cliVars, vizVars, rankVars>>

\* generate_report: contributors = self.get_contributors(), and the report
GetContributorsQuery(response) ==
    /\ pc = "contributors"
    /\ contrib_response' = response
    /\ report' = GenerateReport(all_commits, GetFileTypes(tree_response),
                                GetContributors(response))
    /\ pc' = "save"
    /\ UNCHANGED <<requests, responses, page, all_commits, gc_outcome,
                   tree_response, stats_file>>
    /\ UNCHANGED <<cliVars, vizVars, rankVars>>

\* run_stats: json.dump(report) into args.output; open may raise
SaveReport(write_ok) ==
    /\ pc = "save"
    /\ stats_file' = IF write_ok THEN report ELSE stats_file
    /\ StatsReturns(IF write_ok THEN 0 ELSE 1)
    /\ UNCHANGED <<requests, responses, page, all_commits, gc_outcome,
                   tree_response, contrib_response, report>>
    /\ UNCHANGED <<vizVars, rankVars>>

\* What args.input may hold for "visualize": no readable JSON document, or a
\* report that an earlier run of "stats" wrote.
InputFiles ==
    {<<>>} \cup
    {GenerateReport(CommitPage(1, n, 1), GetFileTypes(t), GetContributors(c)) :
        n \in {0, 37},
        t \in {r \in TreeResponses : r.status = 200 /\ HasKey(r.body, "tree")},
        c \in {[status |-> 200, body |-> ContributorListing(shape, 2)] :
                 shape \in {"descending", "ascending"}}}

\* run: args.command == "visualize"
RunVisualizeCommand(input) ==
    /\ pc = "idle"
    /\ command' = "visualize"
    /\ stats_file' = input
    /\ pc' = "visualize"
    /\ UNCHANGED <<trace, stats_result, viz_result, exit_status>>
    /\ UNCHANGED <<requests, responses, page, all_commits, gc_outcome,
                   tree_response, contrib_response, report>>
    /\ UNCHANGED <<vizVars, rankVars>>

\* run_visualize, whose return value both run and run_analyze return:
\* json.load raises without a readable document; otherwise the visualizer
\* is built on it and generate_html_report runs
RunVisualize(rendered) ==
    /\ pc = "visualize"
    /\ trace' = trace \o <<"viz_start", "viz_end">>
    /\ IF stats_file = <<>>
       THEN /\ viz_result' = 1
            /\ UNCHANGED vizVars
       ELSE LET v == GenerateAllCharts([stats |-> stats_file, charts |-> NoCharts],
                                       rendered)
            IN  /\ loaded' = stats_file
                /\ stats' = v.stats
                /\ charts' = v.charts
                /\ viz_result' = IF rendered = 5 THEN 0 ELSE 1
    /\ exit_status' = viz_result'
    /\ pc' = "done"
    /\ UNCHANGED <<command, stats_result>>
    /\ UNCHANGED <<collectVars, rankVars>>

Next ==
    \/ RunStatsCommand
    \/ \E dir_ok \in BOOLEAN : RunAnalyzeCommand(dir_ok)
    \/ \E input \in InputFiles : RunVisualizeCommand(input)
    \/ \E response \in CommitResponses(page) : GetCommitsPage(response)
    \/ \E response \in TreeResponses : GetFileTypesQuery(response)
    \/ \E response \in ContributorResponses : GetContributorsQuery(response)
    \/ \E write_ok \in BOOLEAN : SaveReport(write_ok)
    \/ \E rendered \in 0..5 : RunVisualize(rendered)

Spec == Init /\ [][Next]_vars

---------------------------------------------------------------------------
(* A visualizer on a loaded report: the derivations called in any order *)

\* Category names a loaded report may use; "Other" is the first, since any
\* JSON document can be loaded.
TypeLabels == <<OtherLabel, <<"r", "s">>, <<"p", "y">>, <<"m", "d">>, <<"t", "x", "t">>>>

TypeCounts == {0, 1, 2, 49, 98}

\* Every mapping of up to MaxTypes distinct categories, in every order
FileTypeMappings ==
    LET labels == {TypeLabels[i] : i \in 1..Min(MaxTypes, Len(TypeLabels))}
        entries == [k : labels, v : TypeCounts]
    IN  UNION {{d \in [1..n -> entries] :
                    \A i, j \in 1..n : i # j => d[i].k # d[j].k} : n \in 0..MaxTypes}

\* {a: 60, b: 30, c: 5, d: 5}
FourSharesMapping ==
    <<[k |-> <<"a">>, v |-> 60], [k |-> <<"b">>, v |-> 30],
      [k |-> <<"c">>, v |-> 5], [k |-> <<"d">>, v |-> 5]>>

BaseReport ==
    GenerateReport(CommitPage(1, 37, 1), <<>>, ContributorListing("ascending", 3))

\* {rs: 97, py: 2, md: 1}: one share at exactly 2%, one below
BoundaryMapping ==
    <<[k |-> <<"r", "s">>, v |-> 97], [k |-> <<"p", "y">>, v |-> 2], [k |-> <<"m", "d">>, v |-> 1]>>

LoadedReports ==
    {[BaseReport EXCEPT !.file_types = d] :
        d \in FileTypeMappings \cup {FourSharesMapping, BoundaryMapping}} \cup
    {[BaseReport EXCEPT !.contributors = ReportContributors(c)] :
        c \in ContributorListings} \cup
    (InputFiles \ {<<>>})

InitCharts ==
    /\ pc = "charts"
    /\ CliIdle
    /\ CollectorIdle
    /\ RankIdle
    /\ loaded \in LoadedReports
    /\ stats = loaded
    /\ charts = NoCharts

\* generate_commit_frequency_chart, called on the visualizer
GenerateCommitFrequencyChart ==
    /\ pc = "charts"
    /\ LET v == CallCommitFrequency([stats |-> stats, charts |-> charts])
       IN  stats' = v.stats /\ charts' = v.charts
    /\ UNCHANGED <<pc, loaded, cliVars, collectVars, rankVars>>

\* generate_file_types_chart, called on the visualizer
GenerateFileTypesChart ==
    /\ pc = "charts"
    /\ LET v == CallFileTypes([stats |-> stats, charts |-> charts])
       IN  stats' = v.stats /\ charts' = v.charts
    /\ UNCHANGED <<pc, loaded, cliVars, collectVars, rankVars>>

\* generate_contributors_chart, called on the visualizer
GenerateContributorsChart ==
    /\ pc = "charts"
    /\ LET v == CallContributors([stats |-> stats, charts |-> charts])
       IN  stats' = v.stats /\ charts' = v.charts
    /\ UNCHANGED <<pc, loaded, cliVars, collectVars, rankVars>>

\* generate_authors_activity_chart, called on the visualizer
GenerateAuthorsActivityChart ==
    /\ pc = "charts"
    /\ LET v == CallAuthorsActivity([stats |-> stats, charts |-> charts])
       IN  stats' = v.stats /\ charts' = v.charts
    /\ UNCHANGED <<pc, loaded, cliVars, collectVars, rankVars>>

NextCharts ==
    \/ GenerateCommitFrequencyChart
    \/ GenerateFileTypesChart
    \/ GenerateContributorsChart
    \/ GenerateAuthorsActivityChart

SpecCharts == InitCharts /\ [][NextCharts]_vars

---------------------------------------------------------------------------
(* The contributor ranking on a list and on a permutation of it *)

\* s rearranged: the i-th element of the result is s[p[i]]
Permuted(s, p) == [i \in 1..Len(s) |-> s[p[i]]]

\* Every rearrangement of 1..n
AllOrders(n) ==
    {p \in [1..n -> 1..n] : \A i, j \in 1..n : i # j => p[i] # p[j]}

\* 1..n with two places exchanged, and 1..n reversed
SomeOrders(n) ==
    {[k \in 1..n |-> IF k = i THEN j ELSE IF k = j THEN i ELSE k] :
        i \in 1..n, j \in 1..n} \cup
    {[k \in 1..n |-> n + 1 - k]}

\* Short lists with every choice of counts, and the provider's long listings
RankInputs ==
    UNION {{[i \in 1..n |-> [login |-> <<"user", i>>, contributions |-> c[i]]] :
                c \in [1..n -> 0..MaxCount]} : n \in 0..MaxSmall} \cup
    {ReportContributors_NoLimit(ContributorListing(shape, n)) :
        shape \in {"descending", "ascending", "ties"},
        n \in {TopContributors, MaxContribs}}

OrdersOf(s) ==
    IF Len(s) <= MaxSmall THEN AllOrders(Len(s)) ELSE SomeOrders(Len(s))

InitRank ==
    /\ pc = "rank"
    /\ CliIdle
    /\ CollectorIdle
    /\ VisualizerIdle
    /\ rk_list \in RankInputs
    /\ rk_perm \in {Permuted(rk_list, p) : p \in OrdersOf(rk_list)}
    /\ rk_out = <<>>
    /\ rk_perm_out = <<>>

\* The ranking of generate_contributors_chart, applied to the list
RankList ==
    /\ pc = "rank"
    /\ rk_out = <<>>
    /\ rk_out' = <<RankContributors(rk_list)>>
    /\ UNCHANGED <<pc, rk_list, rk_perm, rk_perm_out, cliVars, collectVars, vizVars>>

\* The same ranking, applied to the permutation
RankPermutation ==
    /\ pc = "rank"
    /\ rk_perm_out = <<>>
    /\ rk_perm_out' = <<RankContributors(rk_perm)>>
    /\ UNCHANGED <<pc, rk_list, rk_perm, rk_out, cliVars, collectVars, vizVars>>

NextRank == RankList \/ RankPermutation

SpecRank == InitRank /\ [][NextRank]_vars

---------------------------------------------------------------------------
(* The file-type derivation on every short path: a run of "stats" whose    *)
(* commits query answered an empty first page, from the tree query on      *)

\* The characters paths are built from: a lower-case and an upper-case
\* letter, the extension separator and the path separator.
PathChars == <<"a", "B", ".", "/">>

\* A path a git tree can list: no empty component, and none that is "." or
\* "..".
TreePath(f) ==
    /\ f[1] # "/"
    /\ f[Len(f)] # "/"
    /\ \A i \in 1..(Len(f) - 1) : ~(f[i] = "/" /\ f[i + 1] = "/")
    /\ \A i, j \in 1..Len(f) :
          (/\ i <= j
           /\ i = 1 \/ f[i - 1] = "/"
           /\ j = Len(f) \/ f[j + 1] = "/"
           /\ \A m \in i..j : f[m] # "/")
          => SubSeq(f, i, j) \notin {<<".">>, <<".", ".">>}

\* Every such path of up to MaxPathLen characters
TreePaths ==
    UNION {{f \in [1..n -> {PathChars[i] : i \in 1..Len(PathChars)}] : TreePath(f)} :
              n \in 1..MaxPathLen}

\* What "type" a tree entry has: a file, a directory, a submodule
EntryTypes == {"blob", "tree", "commit"}

\* .bashrc, a.b/c, x/file., x/.a.B and a.TAR.gz as files, .git as a directory
EdgeListing ==
    <<[path |-> <<".", "b", "a", "s", "h", "r", "c">>, type |-> "blob"],
      [path |-> <<"a", ".", "b", "/", "c">>, type |-> "blob"],
      [path |-> <<".", "g", "i", "t">>, type |-> "tree"],
      [path |-> <<"x", "/", "f", "i", "l", "e", ".">>, type |-> "blob"],
      [path |-> <<"x", "/", ".", "a", ".", "B">>, type |-> "blob"],
      [path |-> <<"a", ".", "T", "A", "R", ".", "g", "z">>, type |-> "blob"]>>

\* The trees the query answers: one entry of every path and type, and the
\* listings of several entries
PathListings ==
    {<<[path |-> f, type |-> t]>> : f \in TreePaths, t \in EntryTypes} \cup
    TreeListings \cup {EdgeListing}

PathResponses ==
    {[status |-> 200,
      body |-> <<[k |-> "sha", v |-> "abc"], [k |-> "tree", v |-> t]>>] :
        t \in PathListings}

\* get_commits has returned no commits after one request
InitTypes ==
    /\ pc = "tree"
    /\ command = "stats"
    /\ trace = <<"stats_start">>
    /\ stats_result = -1
    /\ viz_result = -1
    /\ exit_status = -1
    /\ requests = <<1>>
    /\ responses = <<[status |-> 200, is_json |-> TRUE, body |-> <<>>]>>
    /\ page = 1
    /\ all_commits = <<>>
    /\ gc_outcome = "returned"
    /\ tree_response = <<>>
    /\ contrib_response = <<>>
    /\ report = <<>>
    /\ stats_file = <<>>
    /\ VisualizerIdle
    /\ RankIdle

NextTypes ==
    \/ \E response \in PathResponses : GetFileTypesQuery(response)
    \/ \E response \in ContributorResponses : GetContributorsQuery(response)

SpecTypes == InitTypes /\ [][NextTypes]_vars

---------------------------------------------------------------------------
(* Claims about the collection and the report (checked under Spec) *)

\* The commits query is over: get_commits returned or raised.
CommitsAnswered == gc_outcome \in {"returned", "raised"}

Succeeded(response) == response.status = 200

\* The items of the first n pages answered, in order
RECURSIVE PagesConcat(_, _)
PagesConcat(answers, n) ==
    IF n = 0 THEN <<>> ELSE PagesConcat(answers, n - 1) \o answers[n].body

AllSucceeded == \A i \in 1..Len(responses) : Succeeded(responses[i])

\* C1: whatever get_commits returned (nothing, or a list cut short by a
\* failed page), the report's commit_frequency values and its authors values
\* each add up to its total_commits.
C1_CountsPartitionCommits ==
    report # <<>> =>
        /\ SumValues(report.commit_frequency) = report.total_commits
        /\ report.total_commits = SumValues(report.authors)
        /\ report.total_commits = Len(all_commits)

\* C1 witness: a report over more than one page of commits, cut short by a
\* failed page, with several days and several authors.
C1_Witness ==
    /\ report # <<>>
    /\ report.total_commits > PerPage
    /\ ~Succeeded(responses[Len(responses)])
    /\ Len(report.commit_frequency) > 1
    /\ Len(report.authors) > 1

C2_PagesInOrder ==
    AllSucceeded =>
        LET n == Len(responses)
        IN  /\ requests = [i \in 1..n |-> i]
            /\ \A i \in 1..(n - 1) : Len(responses[i].body) = PerPage
            /\ all_commits = PagesConcat(responses, n)
            /\ gc_outcome = "returned" <=>
                   (n >= 1 /\ Len(responses[n].body) < PerPage)
            /\ gc_outcome # "raised"

\* C2: when every page answered is a success, the pages requested are
\* 1, 2, ..., k in that order, each once, every page before the k-th is full,
\* get_commits returns exactly at the first page that is empty or short, what
\* it holds is the concatenation of the pages in order, and once it has
\* returned no further request is made.
C2_PaginationStopsAtFirstShortPage ==
    /\ []C2_PagesInOrder
    /\ [][gc_outcome = "returned" => requests' = requests]_vars

\* C2 witness: pages of 100, 100 and 37 items give 237 items after exactly
\* three requests.
C2_Witness ==
    /\ gc_outcome = "returned"
    /\ AllSucceeded
    /\ requests = <<1, 2, 3>>
    /\ Len(responses[3].body) = 37
    /\ Len(all_commits) = 237

\* C3 as claimed: once page k is answered with a non-success status after
\* k - 1 successes, get_commits has returned the items of pages 1..k-1
\* without raising, having requested pages 1..k once each and none after.
C3_FailedPageKeepsItems ==
    LET k == Len(responses)
    IN  (k >= 1 /\ ~Succeeded(responses[k])) =>
            /\ gc_outcome = "returned"
            /\ all_commits = PagesConcat(responses, k - 1)
            /\ requests = [i \in 1..k |-> i]

\* What holds of a failed page in the code: the same, provided the body of
\* the failure answer is a JSON object.
C3_FailedJsonPageKeepsItems ==
    LET k == Len(responses)
    IN  (k >= 1 /\ ~Succeeded(responses[k])) =>
            /\ gc_outcome = "returned" <=> responses[k].is_json
            /\ gc_outcome = "raised" <=> ~responses[k].is_json
            /\ all_commits = PagesConcat(responses, k - 1)
            /\ requests = [i \in 1..k |-> i]

FullPage(response) == Succeeded(response) /\ Len(response.body) = PerPage

ReportFields ==
    {"repository", "analysis_period_days", "total_commits", "commit_frequency",
     "authors", "file_types", "contributors"}

\* generate_report was entered and is over: its three queries were made, or
\* an exception left it.
ReportDue ==
    \/ gc_outcome = "raised"
    \/ gc_outcome = "returned" /\ pc \in {"save", "visualize", "done"}

\* What a report holds when queries failed: the seven fields, nothing from a
\* failed query, and from each query that succeeded what it alone returned.
DegradedReport ==
    /\ DOMAIN report = ReportFields
    /\ ~Succeeded(responses[1]) =>
           /\ report.total_commits = 0
           /\ report.commit_frequency = <<>>
           /\ report.authors = <<>>
    /\ report.total_commits =
           Len(PagesConcat(responses, Cardinality({i \in 1..Len(responses) :
                                                      Succeeded(responses[i])})))
    /\ ~Succeeded(tree_response) => report.file_types = <<>>
    /\ Succeeded(tree_response) =>
           SumValues(report.file_types) =
               Cardinality({i \in 1..Len(BlobPaths(tree_response.body)) : TRUE})
    /\ ~Succeeded(contrib_response) => report.contributors = <<>>
    /\ Succeeded(contrib_response) =>
           Len(report.contributors) = Min(TopContributors, Len(contrib_response.body))

\* C5 as claimed: whichever of the three queries are answered with a
\* non-success status, generate_report is not aborted: it returns a report
\* with the seven fields, empty where the query failed and unaffected where
\* it succeeded.
C5_FailedQueriesNeverAbort ==
    ReportDue => report # <<>> /\ DegradedReport

\* What holds of the code: the same, unless the commits query was answered
\* with a non-success status whose body is no JSON object (see C3).
C5_FailedQueriesDegradeUnlessRaised ==
    ReportDue =>
        IF gc_outcome = "raised"
        THEN report = <<>> /\ ~responses[Len(responses)].is_json
        ELSE report # <<>> /\ DegradedReport

\* C6: the report's contributors are the first min(10, n) of the n entries
\* the contributors query returned, in the provider's order, each reduced to
\* its login and contributions; never more than 10.
C6_ContributorsAreFirstTenInProviderOrder ==
    (report # <<>> /\ Succeeded(contrib_response)) =>
        LET listed == contrib_response.body
            kept == report.contributors
        IN  /\ Len(kept) = Min(TopContributors, Len(listed))
            /\ Len(kept) <= TopContributors
            /\ \A i \in 1..Len(kept) :
                   /\ DOMAIN kept[i] = {"login", "contributions"}
                   /\ kept[i].login = listed[i].login
                   /\ kept[i].contributions = listed[i].contributions

\* C6 witness: a report from a listing of more than ten contributors that
\* is not in descending order.
C6_Witness ==
    /\ report # <<>>
    /\ Succeeded(contrib_response)
    /\ Len(contrib_response.body) > TopContributors
    /\ contrib_response.body[1].contributions < contrib_response.body[TopContributors].contributions
    /\ Len(report.contributors) = TopContributors

AnalyzeSteps == <<"stats_start", "stats_end", "viz_start", "viz_end">>

Occurs(step) == \E i \in 1..Len(trace) : trace[i] = step

\* C10: in "analyze" the statistics step comes first and the visualization
\* step is started only after it has returned 0; a non-zero statistics status
\* is returned without starting the visualization, and otherwise the
\* visualization runs once, after the statistics step, and its status is
\* returned.
C10_AnalyzePropagatesFirstFailure ==
    command = "analyze" =>
        /\ trace = SubSeq(AnalyzeSteps, 1, Len(trace))
        /\ Occurs("viz_start") => stats_result = 0
        /\ (pc = "done" /\ stats_result > 0) =>
               /\ ~Occurs("viz_start")
               /\ viz_result = -1
               /\ exit_status = stats_result
        /\ (pc = "done" /\ stats_result = 0) =>
               /\ trace = AnalyzeSteps
               /\ exit_status = viz_result

\* C10 witness: the statistics step returned 0, the visualization step ran
\* after it and failed, and analyze returned the visualization's status.
C10_Witness ==
    /\ command = "analyze"
    /\ pc = "done"
    /\ stats_result = 0
    /\ trace = AnalyzeSteps
    /\ viz_result = 1
    /\ exit_status = 1

---------------------------------------------------------------------------
(* Claims about the chart derivations *)

\* The series the claim describes for the mapping d: the categories with at
\* least 2% of the total, in d's order, then "Other" with the sum of the
\* rest when that sum is positive.
SharesAsClaimed(d) ==
    LET total == SumValues(d)
        Kept(e) == e.v * 100 >= 2 * total
        Merged(e) == ~Kept(e)
        other == SumValues(SelectSeq(d, Merged))
    IN  IF other > 0
        THEN Append(SelectSeq(d, Kept), [k |-> OtherLabel, v |-> other])
        ELSE SelectSeq(d, Kept)

\* C7 as claimed: for every file_types mapping the grouped series keeps
\* exactly the categories with at least 2% of the total, in insertion order,
\* and ends with "Other" holding the rest iff the rest is positive.
C7_SharesGroupedAtTwoPercent ==
    (pc = "charts" /\ charts.file_types # <<>>) =>
        charts.file_types[1] = SharesAsClaimed(loaded.file_types)

\* C7 amended: the same, for every file_types mapping that has no category
\* named "Other" (get_file_types lower-cases extensions, so it yields none).
C7_SharesGroupedUnlessOtherIsACategory ==
    (pc = "charts" /\ charts.file_types # <<>>
        /\ ~HasKey(loaded.file_types, OtherLabel)) =>
        charts.file_types[1] = SharesAsClaimed(loaded.file_types)

\* C7 witness: {rs: 97, py: 2, md: 1} grouped: py, at exactly 2%, is kept,
\* md is merged, "Other" comes last.
C7_Witness ==
    /\ pc = "charts"
    /\ loaded.file_types = BoundaryMapping
    /\ charts.file_types # <<>>
    /\ Len(charts.file_types[1]) = 3
    /\ charts.file_types[1][2] = BoundaryMapping[2]
    /\ charts.file_types[1][3] = [k |-> OtherLabel, v |-> 1]

Counts(s) == [i \in 1..Len(s) |-> s[i].contributions]

DistinctCounts(s) ==
    \A i, j \in 1..Len(s) : i # j => s[i].contributions # s[j].contributions

Descending(s) ==
    \A i \in 1..(Len(s) - 1) : s[i].contributions >= s[i + 1].contributions

\* C8 as claimed: ranking a permutation of a list yields the same top-10
\* sequence as ranking the list, ties included, and ranking a list that is
\* already descending returns it unchanged (its first 10 entries, the
\* ranking being cut there).
C8_RankingIgnoresInputOrder ==
    /\ (rk_out # <<>> /\ rk_perm_out # <<>>) => rk_out = rk_perm_out
    /\ (rk_out # <<>> /\ Descending(rk_list)) =>
           rk_out[1] = Take(rk_list, TopContributors)

\* C8 amended: ranking a permutation yields the same sequence of
\* contribution counts, and the same sequence of contributors when no two
\* counts are equal (contributors with equal counts keep their input
\* order); a ranking is descending and has min(10, n) entries, and ranking a
\* list that is already descending returns its first 10 entries unchanged.
C8_RankingIgnoresInputOrderUpToTies ==
    /\ (rk_out # <<>> /\ rk_perm_out # <<>>) =>
           /\ Counts(rk_out[1]) = Counts(rk_perm_out[1])
           /\ DistinctCounts(rk_list) => rk_out = rk_perm_out
    /\ rk_out # <<>> =>
           /\ Descending(rk_out[1])
           /\ Len(rk_out[1]) = Min(TopContributors, Len(rk_list))
           /\ Descending(rk_list) => rk_out[1] = Take(rk_list, TopContributors)

\* C8 witness: more than ten contributors with distinct counts, not in
\* descending order, ranked in two different input orders.
C8_Witness ==
    /\ rk_out # <<>>
    /\ rk_perm_out # <<>>
    /\ Len(rk_list) > TopContributors
    /\ DistinctCounts(rk_list)
    /\ ~Descending(rk_list)
    /\ rk_perm # rk_list
    /\ rk_out = rk_perm_out

\* C9 as claimed: whatever derivations have been called, the report the
\* visualizer holds is the report that was loaded, the order of its
\* contributors included.
C9_DerivationsLeaveReportUnchanged ==
    pc = "charts" => stats = loaded

\* What holds of the code: only generate_contributors_chart changes the
\* report, and only by sorting its contributors in place.
C9_OnlyContributorsAreReordered ==
    pc = "charts" =>
        /\ stats = [loaded EXCEPT !.contributors = stats.contributors]
        /\ stats.contributors =
               IF charts.contributors = <<>> THEN loaded.contributors
               ELSE SortContributors(loaded.contributors)

---------------------------------------------------------------------------
(* Claims about the file-type derivation (checked under SpecTypes) *)

\* The final component of the path f
FinalComponent(f) == SubSeq(f, RFind(f, "/") + 1, Len(f))

\* The extension the claim describes: what follows the last dot of the
\* final component, lower-cased; "no_extension" when there is no dot or
\* nothing follows it.
ExtensionAsClaimed(f) ==
    LET name == FinalComponent(f)
        dot == RFind(name, ".")
    IN  IF dot = 0 \/ dot = Len(name) THEN NoExtension
        ELSE Lower(SubSeq(name, dot + 1, Len(name)))

\* The same, except that a final component with nothing but dots before its
\* last dot has no extension either.
ExtensionUnlessDotfile(f) ==
    LET name == FinalComponent(f)
        dot == RFind(name, ".")
    IN  IF \A j \in 1..(dot - 1) : name[j] = "." THEN NoExtension
        ELSE ExtensionAsClaimed(f)

\* The paths of the entries of type "blob" in the tree query's answer
BlobsListed ==
    LET tree == Get(tree_response.body, "tree")
    IN  {i \in 1..Len(tree) : tree[i].type = "blob"}

\* The tree query has listed a tree and the report is built
TypesDerived ==
    /\ pc = "save"
    /\ tree_response.status = 200
    /\ HasKey(tree_response.body, "tree")

\* How many listed blobs have the extension e as the claim describes it
TimesClaimed(e) ==
    LET tree == Get(tree_response.body, "tree")
    IN  Cardinality({i \in BlobsListed : ExtensionAsClaimed(tree[i].path) = e})

\* How many listed blobs have the extension e, dotfiles having none
TimesUnlessDotfile(e) ==
    LET tree == Get(tree_response.body, "tree")
    IN  Cardinality({i \in BlobsListed : ExtensionUnlessDotfile(tree[i].path) = e})

\* The count the report holds for the extension e; 0 when it has none
Reported(e) ==
    IF HasKey(report.file_types, e) THEN Get(report.file_types, e) ELSE 0

\* The extensions that either reading or the report name
ExtensionsNamed ==
    LET tree == Get(tree_response.body, "tree")
    IN  {report.file_types[i].k : i \in 1..Len(report.file_types)} \cup
        {ExtensionAsClaimed(tree[i].path) : i \in 1..Len(tree)} \cup
        {ExtensionUnlessDotfile(tree[i].path) : i \in 1..Len(tree)}

\* C11 as claimed: the report counts exactly the blob entries, each under
\* the lower-cased text after the last dot of its final path component, or
\* under "no_extension" when nothing follows a last dot -- for every path,
\* also one whose final component starts with a dot.
C11_ExtensionAfterLastDot ==
    TypesDerived =>
        /\ \A e \in ExtensionsNamed : Reported(e) = TimesClaimed(e)
        /\ \A i \in 1..Len(report.file_types) : report.file_types[i].v > 0

\* C11 amended: the same, except that a final component with nothing but
\* dots before its last dot (".bashrc", "..a") counts under "no_extension".
C11_ExtensionAfterLastDotUnlessDotfile ==
    TypesDerived =>
        /\ \A e \in ExtensionsNamed : Reported(e) = TimesUnlessDotfile(e)
        /\ \A i \in 1..Len(report.file_types) : report.file_types[i].v > 0

\* C11 witness: .bashrc, a.b/c and x/file. counted under "no_extension",
\* x/.a.B under "b", a.TAR.gz under "gz", the directory .git not at all.
C11_Witness ==
    /\ TypesDerived
    /\ Get(tree_response.body, "tree") = EdgeListing
    /\ report.file_types =
           <<[k |-> NoExtension, v |-> 3], [k |-> <<"b">>, v |-> 1],
             [k |-> <<"g", "z">>, v |-> 1]>>

---------------------------------------------------------------------------
(* The file count across the file-types grouping (checked under SpecCharts) *)

\* No label occurs twice in the mapping d
DistinctLabels(d) == \A i, j \in 1..Len(d) : i # j => d[i].k # d[j].k

\* C12 as claimed: for every file_types mapping of a loaded report, one
\* with a key named "Other" included, the grouped series sums to the sum of
\* the mapping and no label occurs twice in it.
C12_GroupingConservesFileCount ==
    (pc = "charts" /\ charts.file_types # <<>>) =>
        /\ SumValues(charts.file_types[1]) = SumValues(loaded.file_types)
        /\ DistinctLabels(charts.file_types[1])

\* What holds of the code: labels are never repeated, and the sum is kept
\* unless the mapping has a key named "Other" and some category falls
\* below the threshold; the count under "Other" is then lost.
C12_FileCountLostOnlyUnderOther ==
    (pc = "charts" /\ charts.file_types # <<>>) =>
        LET d == loaded.file_types
            Merged(e) == ~AtLeastThreshold(e.v, SumValues(d))
            other == SumValues(SelectSeq(d, Merged))
        IN  /\ DistinctLabels(charts.file_types[1])
            /\ SumValues(charts.file_types[1]) =
                   IF HasKey(d, OtherLabel) /\ other > 0
                      /\ AtLeastThreshold(Get(d, OtherLabel), SumValues(d))
                   THEN SumValues(d) - Get(d, OtherLabel)
                   ELSE SumValues(d)

===========================================================================
